---- MODULE Spec2Model ----
(***************************************************************************)
(* Model of src/main.py: the resumable, paginated download of 1-minute     *)
(* bars for every MES futures contract of the trailing two years.          *)
(*                                                                         *)
(* Time is counted in minutes.  A day has DayMinutes minutes.  A cursor    *)
(* string "%Y%m%d %H:%M:%S" is the pair <<day, minute of the day>>; the    *)
(* empty string '' is <<>>.  Sleeps are counted in tenths of a second.     *)
(* An expiry string is the sequence of its digits; the calendar has twelve *)
(* months of MonthDays days and day 0 is the first of January 2024.  A bar *)
(* is the pair <<date, close>>.                                            *)
(* The process can be killed between any two steps (Crash) and started     *)
(* again (Start); the files on disk (files, diskLog) survive, the rest     *)
(* does not.  One write of a file is one step.                             *)
(***************************************************************************)
EXTENDS Integers, Sequences, FiniteSets, TLC

\* ---------------------------------------------------------------- bounds
DayMinutes   == 3      \* minutes in a day (1440, scaled down)
MonthDays    == 2      \* days in a month (scaled down)
LookbackDays == 2      \* timedelta(days=730), scaled down
WindowDays   == 1      \* durationStr='7 D', scaled down
MaxRuns      == 3      \* how many times the process is started
MaxTicks     == 1      \* how many minutes the wall clock advances
MaxFaults    == 3      \* how many times the environment fails the process

\* ------------------------------------------------------ program constants
MaxRetries     == 3    \* max_retries=3
RateLimitDelay == 11   \* time.sleep(1.1), in tenths of a second

Lookback    == LookbackDays * DayMinutes
Window      == WindowDays * DayMinutes
ClockStart  == Lookback + DayMinutes
MaxClock    == ClockStart + MaxTicks
Times       == 0..MaxClock

\* ------------------------------------------------------------- helpers
Min(S) == CHOOSE x \in S : \A y \in S : x <= y
Max(S) == CHOOSE x \in S : \A y \in S : y <= x
Range(s) == {s[i] : i \in 1..Len(s)}

RECURSIVE Pow2(_)
Pow2(n) == IF n = 0 THEN 1 ELSE 2 * Pow2(n - 1)

\* the dates of a set of bars
Dates(S) == {r[1] : r \in S}

\* the bars of a page in ascending order of date, as the API returns them
SortedSeq(S) ==
  [k \in 1..Cardinality(S) |->
     CHOOSE r \in S : Cardinality({q \in S : q[1] < r[1]}) = k - 1]

\* strftime("%Y%m%d %H:%M:%S") of a minute timestamp
StrFTime(t) == <<t \div DayMinutes, t % DayMinutes>>
\* the API's reading of endDateTime; '' means now
ParseEnd(s, nowClock) == IF s = <<>> THEN nowClock ELSE s[1] * DayMinutes + s[2]

\* ------------------------------------------------- what the API returns
\* reqContractDetails: localSymbol and lastTradeDateOrContractMonth
ContractDetails ==
  << [localSymbol |-> "OLD", expiry |-> <<2, 0, 2, 4, 0, 1, 0, 1>>],
     [localSymbol |-> "EXP", expiry |-> <<2, 0, 2, 4, 0, 2, 0, 1>>],
     [localSymbol |-> "BAD", expiry |-> <<>>],
     [localSymbol |-> "NOV", expiry |-> <<2, 0, 2, 4, 1, 1>>],
     [localSymbol |-> "CUR", expiry |-> <<2, 0, 2, 4, 0, 4>>] >>
Symbols == {ContractDetails[i].localSymbol : i \in 1..Len(ContractDetails)}

\* the bars the exchange holds for the contracts of the product, which trade
\* in the same sessions: every minute, or minutes with a hole wider than one
\* window, or every minute but one, or none
DataProfiles ==
  { Times,
    {t \in Times : t <= ClockStart - 2 * Window \/ t > ClockStart - Window},
    {t \in Times : t # ClockStart + 1 - Lookback},
    {} }

VARIABLES
  pc,              \* position of the process: "off" when it is not running
  runs,            \* number of starts so far
  faults,          \* number of failures so far (refused, raised, killed)
  clock,           \* wall clock, in minutes
  apiData,         \* symbol -> the bars the API holds
  valid_contracts, \* the filtered contract list
  log,             \* the in-memory checkpoint mapping
  diskLog,         \* fetch_log.json
  files,           \* symbol -> rows of <symbol>_temp.csv, <<>> if absent
  idx,             \* index of the contract loop
  end_dt,          \* cursor of fetch_contract_data
  start_date,      \* two-year boundary of fetch_contract_data
  retry,           \* attempt counter of the retry loop
  bars,            \* the page returned by reqHistoricalData (set of bars)
  df,              \* the page after the boundary filter
  status,          \* symbol -> INIT, FETCHING, DONE, FAILED, ERROR, UNPARSED
  result,          \* the combined dataset
  \* history variables
  slept,           \* sleep since the last request of this run, -1 before the first
  lastGap,         \* value of slept when the last request was sent
  lastReq,         \* <<symbol, end time>> of the last request, <<>> if none
  backoffs,        \* the backoff sleeps of the current page
  startCursor,     \* diskLog as it was when the run started
  unsaved,         \* symbol -> pages appended in this run and not checkpointed
  interrupts,      \* symbol -> times a page was appended and its checkpoint lost
  responses,       \* the pages the API returned to this fetch_contract_data
  reqs,            \* the requests this fetch_contract_data sent
  ckpts,           \* the times this fetch_contract_data changed fetch_log.json
  appended,        \* the rows this fetch_contract_data appended
  printed          \* the contracts the merge printed a line for

vars == <<pc, runs, faults, clock, apiData, valid_contracts, log, diskLog, files, idx,
          end_dt, start_date, retry, bars, df, status, result, slept, lastGap,
          lastReq, backoffs, startCursor, unsaved, interrupts, responses, reqs,
          ckpts, appended, printed>>

volatile == <<valid_contracts, log, idx, end_dt, start_date, retry, bars, df>>
history  == <<slept, lastGap, lastReq, backoffs, startCursor, unsaved, interrupts>>
perFetch == <<responses, reqs, ckpts, appended>>

\* the number of a day of the calendar
DayNumber(y, m, d) == ((y - 2024) * 12 + (m - 1)) * MonthDays + (d - 1)

\* strptime's %m on the digits q: the candidates <<month, digits used>> in
\* the order the regular expression 1[0-2]|0[1-9]|[1-9] tries them
MonthMatches(q) ==
  (IF Len(q) >= 2 /\ q[1] = 1 /\ q[2] \in 0..2 THEN << <<10 + q[2], 2>> >> ELSE <<>>)
  \o (IF Len(q) >= 2 /\ q[1] = 0 /\ q[2] \in 1..9 THEN << <<q[2], 2>> >> ELSE <<>>)
  \o (IF Len(q) >= 1 /\ q[1] \in 1..9 THEN << <<q[1], 1>> >> ELSE <<>>)

\* strptime's %d on the digits q: the first alternative of
\* 3[01]|[12]\d|0[1-9]|[1-9] that matches, as <<day, digits used>>, or <<>>
DayMatch(q) ==
  IF Len(q) >= 2 /\ q[1] = 3 /\ q[2] \in 0..1 THEN <<30 + q[2], 2>>
  ELSE IF Len(q) >= 2 /\ q[1] \in 1..2 THEN <<10 * q[1] + q[2], 2>>
  ELSE IF Len(q) >= 2 /\ q[1] = 0 /\ q[2] \in 1..9 THEN <<q[2], 2>>
  ELSE IF Len(q) >= 1 /\ q[1] \in 1..9 THEN <<q[1], 1>>
  ELSE <<>>

\* datetime.strptime(s, "%Y%m%d"): the day number, or -1 for ValueError (no
\* match, unconverted data remains, day out of range for month)
Strptime(s) ==
  IF Len(s) < 4 THEN -1
  ELSE LET y == 1000 * s[1] + 100 * s[2] + 10 * s[3] + s[4]
           q == SubSeq(s, 5, Len(s))
           ms == MonthMatches(q)
           ok == {i \in 1..Len(ms) : DayMatch(SubSeq(q, ms[i][2] + 1, Len(q))) # <<>>}
       IN IF ok = {} THEN -1
          ELSE LET m == ms[Min(ok)]
                   d == DayMatch(SubSeq(q, m[2] + 1, Len(q)))
               IN IF m[2] + d[2] < Len(q) \/ d[1] > MonthDays THEN -1
                  ELSE DayNumber(y, m[1], d[1])

\* lines 31-40 and 72-80: strptime(expiry_str, "%Y%m%d"), then with "01"
\* appended; midnight of the expiry day in minutes, or -1 when neither parses
ParseDate(expiry_str) ==
  IF Strptime(expiry_str) # -1 THEN Strptime(expiry_str) * DayMinutes
  ELSE IF Strptime(expiry_str \o <<0, 1>>) # -1
       THEN Strptime(expiry_str \o <<0, 1>>) * DayMinutes
       ELSE -1

\* the parsed expiry of each contract the API returns
Expiries == [i \in 1..Len(ContractDetails) |-> ParseDate(ContractDetails[i].expiry)]
ParseExpiry(c) == Expiries[CHOOSE i \in 1..Len(ContractDetails) : ContractDetails[i] = c]

Contract(s) == CHOOSE c \in Range(ContractDetails) : c.localSymbol = s

NoLog == [s \in Symbols |-> <<>>]

Init ==
  /\ pc = "off"
  /\ runs = 0
  /\ faults = 0
  /\ clock = ClockStart
  /\ \E held \in DataProfiles :
       apiData = [s \in Symbols |->
                    IF ParseExpiry(Contract(s)) < Lookback THEN {} ELSE held]
  /\ valid_contracts = <<>>
  /\ log = NoLog
  /\ diskLog = NoLog
  /\ files = [s \in Symbols |-> <<>>]
  /\ idx = 1
  /\ end_dt = <<>>
  /\ start_date = 0
  /\ retry = 0
  /\ bars = {}
  /\ df = {}
  /\ status = [s \in Symbols |-> "INIT"]
  /\ result = <<>>
  /\ slept = -1
  /\ lastGap = -1
  /\ lastReq = <<>>
  /\ backoffs = <<>>
  /\ startCursor = NoLog
  /\ unsaved = [s \in Symbols |-> 0]
  /\ interrupts = [s \in Symbols |-> 0]
  /\ responses = <<>>
  /\ reqs = 0
  /\ ckpts = 0
  /\ appended = <<>>
  /\ printed = {}


\* lines 27-44: the contracts whose expiry parses and is >= two_years_ago
RECURSIVE FilterContracts(_, _)
FilterContracts(cs, two_years_ago) ==
  IF cs = <<>> THEN <<>>
  ELSE LET c == Head(cs)
           rest == FilterContracts(Tail(cs), two_years_ago)
       IN IF ParseExpiry(c) # -1 /\ ParseExpiry(c) >= two_years_ago
          THEN <<c>> \o rest ELSE rest

CursorFromLogOnly(stored, c, now) == stored

\* lines 83-85: the cursor of the first request
InitialCursor(stored, c, now) ==
  IF stored = <<>> /\ ParseExpiry(c) < now
  THEN <<ParseExpiry(c) \div DayMinutes, DayMinutes - 1>>  \* strftime("%Y%m%d 23:59:59")
  ELSE stored

\* the close of a bar: the bar of the current minute is still forming
Close(t, nowClock) == IF t = nowClock THEN 0 ELSE 1

\* lines 96-106: the bars of the window of durationStr ending at endDateTime
HistoricalData(held, end, nowClock) ==
  {<<t, Close(t, nowClock)>> : t \in {u \in held : u > end - Window /\ u <= end /\ u <= nowClock}}

BackoffFromOne(r) == 10 * Pow2(r + 1)

\* line 111: wait_time = 2 ** retry, in tenths of a second
Backoff(r) == 10 * Pow2(r)

FilterNothing(page, start) == page

\* line 126: df[df['date'] >= start_date]
FilterBars(page, start) == {r \in page : r[1] >= start}

CursorAfterPage(page) == Max(Dates(page)) + 1

CursorAtMin(page) == Min(Dates(page))

\* line 138: df['date'].min() - timedelta(minutes=1)
NextCursor(page) == Min(Dates(page)) - 1

WriteLogLater(disk, mem) == disk

\* lines 143-144: json.dump(log, f) rewrites the whole mapping
WriteLog(disk, mem) == mem

\* line 149: the early-termination test
ReachedBoundary(page, start) == Min(Dates(page)) <= start

SameContract(i) == i

\* line 153: after a break the for loop takes the next contract
NextContract(i) == i + 1

AbortLoop(i) == Len(valid_contracts) + 1

\* lines 114-116 and 164-166: the loop index after a contract is given up
AfterGiveUp(i) == i + 1

\* lines 168-186: load the non-empty files, tag, concatenate, drop exact
\* duplicates (the first is kept), sort by date
RECURSIVE Tagged(_, _)
Tagged(rows, sym) ==
  IF rows = <<>> THEN <<>> ELSE <<Append(Head(rows), sym)>> \o Tagged(Tail(rows), sym)

RECURSIVE Concat(_, _)
Concat(cs, fs) ==
  IF cs = <<>> THEN <<>>
  ELSE Tagged(fs[Head(cs).localSymbol], Head(cs).localSymbol) \o Concat(Tail(cs), fs)

RECURSIVE DropSameDate(_)
DropSameDate(rows) ==
  IF rows = <<>> THEN <<>>
  ELSE LET init == DropSameDate(SubSeq(rows, 1, Len(rows) - 1))
           last == rows[Len(rows)]
       IN IF last[1] \in {r[1] : r \in Range(init)} THEN init ELSE Append(init, last)

RECURSIVE DropDuplicates(_)
DropDuplicates(rows) ==
  IF rows = <<>> THEN <<>>
  ELSE LET init == DropDuplicates(SubSeq(rows, 1, Len(rows) - 1))
           last == rows[Len(rows)]
       IN IF last \in Range(init) THEN init ELSE Append(init, last)

RECURSIVE SortByDate(_)
SortByDate(rows) ==
  IF rows = <<>> THEN <<>>
  ELSE LET m == Min({rows[i][1] : i \in 1..Len(rows)})
           k == Min({i \in 1..Len(rows) : rows[i][1] = m})
       IN <<rows[k]>> \o SortByDate(SubSeq(rows, 1, k - 1) \o SubSeq(rows, k + 1, Len(rows)))

Merged(cs, fs) == SortByDate(DropDuplicates(Concat(cs, fs)))

\* lines 170-182: the contracts the merge prints a line for (loaded, empty
\* or failed to load): those whose file exists
MergeLines(cs, fs) ==
  {cs[i].localSymbol : i \in {j \in 1..Len(cs) : fs[cs[j].localSymbol] # <<>>}}

\* ------------------------------------------------------------- actions
Running == pc \notin {"off", "finished"}
Cur == valid_contracts[idx]
Sym == Cur.localSymbol
Zero == [s \in Symbols |-> 0]

\* lines 10-17, connection refused: the script prints and exits
ConnectFail ==
  /\ pc \in {"off", "finished"}
  /\ UNCHANGED perFetch
  /\ UNCHANGED printed
  /\ faults < MaxFaults
  /\ faults' = faults + 1
  /\ pc' = "off"
  /\ UNCHANGED <<runs, clock, apiData, diskLog, files, status, result, interrupts>>
  /\ UNCHANGED volatile
  /\ UNCHANGED <<slept, lastGap, lastReq, backoffs, startCursor, unsaved>>

\* lines 10-55: connect, enumerate and filter the contracts, load the log
Start ==
  /\ pc \in {"off", "finished"}
  /\ responses' = <<>>
  /\ reqs' = 0
  /\ ckpts' = 0
  /\ appended' = <<>>
  /\ printed' = {}
  /\ UNCHANGED faults
  /\ runs < MaxRuns
  /\ runs' = runs + 1
  /\ valid_contracts' = FilterContracts(ContractDetails, clock - Lookback)
  /\ log' = diskLog
  /\ idx' = 1
  /\ status' = [s \in Symbols |-> "INIT"]
  /\ result' = <<>>
  /\ slept' = -1
  /\ lastGap' = -1
  /\ lastReq' = <<>>
  /\ backoffs' = <<>>
  /\ startCursor' = diskLog
  /\ unsaved' = Zero
  /\ end_dt' = <<>>
  /\ start_date' = 0
  /\ retry' = 0
  /\ bars' = {}
  /\ df' = {}
  /\ pc' = "loop"
  /\ UNCHANGED <<clock, apiData, diskLog, files, interrupts>>

\* time passes
Tick ==
  /\ clock < MaxClock
  /\ UNCHANGED perFetch
  /\ UNCHANGED printed
  /\ UNCHANGED faults
  /\ clock' = clock + 1
  /\ UNCHANGED <<pc, runs, apiData, diskLog, files, status, result>>
  /\ UNCHANGED volatile
  /\ UNCHANGED history

\* the return of fetch_contract_data to the contract loop (lines 153-166)
Leave(outcome, next) ==
  /\ status' = [status EXCEPT ![Sym] = outcome]
  /\ idx' = next
  /\ pc' = "loop"

\* lines 153-163 and 65-90: the loop calls fetch_contract_data, which sets
\* the cursor and the two-year boundary
FetchInit ==
  /\ pc = "loop"
  /\ responses' = <<>>
  /\ reqs' = 0
  /\ ckpts' = 0
  /\ appended' = <<>>
  /\ UNCHANGED printed
  /\ UNCHANGED faults
  /\ idx <= Len(valid_contracts)
  /\ IF ParseExpiry(Cur) = -1
     THEN /\ Leave("UNPARSED", idx + 1)
          /\ UNCHANGED <<end_dt, start_date>>
     ELSE /\ end_dt' = InitialCursor(log[Sym], Cur, clock)
          /\ start_date' = clock - Lookback
          /\ status' = [status EXCEPT ![Sym] = "FETCHING"]
          /\ pc' = "request"
          /\ idx' = idx
  /\ retry' = 0
  /\ backoffs' = <<>>
  /\ UNCHANGED <<runs, clock, apiData, valid_contracts, log, diskLog, files, bars, df,
                 result, slept, lastGap, lastReq, startCursor, unsaved, interrupts>>

\* the history of a request being sent
Sent ==
  /\ lastReq' = <<Sym, ParseEnd(end_dt, clock)>>
  /\ lastGap' = slept
  /\ reqs' = reqs + 1

\* lines 96-107: the request returns a page
RequestOk ==
  /\ pc = "request"
  /\ UNCHANGED faults
  /\ Sent
  /\ slept' = 0
  /\ bars' = HistoricalData(apiData[Sym], ParseEnd(end_dt, clock), clock)
  /\ pc' = "check"
  /\ responses' = Append(responses, bars')
  /\ UNCHANGED <<ckpts, appended, printed>>
  /\ UNCHANGED <<runs, clock, apiData, valid_contracts, log, diskLog, files, idx, end_dt,
                 start_date, retry, df, status, result, backoffs, startCursor, unsaved,
                 interrupts>>

\* lines 96-116: the request raises; back off and retry, or give up
RequestFail ==
  /\ pc = "request"
  /\ UNCHANGED <<responses, ckpts, appended, printed>>
  /\ faults < MaxFaults
  /\ faults' = faults + 1
  /\ Sent
  /\ IF retry < MaxRetries - 1
     THEN /\ slept' = Backoff(retry)
          /\ backoffs' = Append(backoffs, Backoff(retry))
          /\ retry' = retry + 1
          /\ UNCHANGED <<pc, idx, status>>
     ELSE /\ Leave("FAILED", AfterGiveUp(idx))
          /\ slept' = 0
          /\ UNCHANGED <<backoffs, retry>>
  /\ UNCHANGED <<runs, clock, apiData, valid_contracts, log, diskLog, files, end_dt,
                 start_date, bars, df, result, startCursor, unsaved, interrupts>>

\* lines 118-128: an empty page, or a page with nothing inside the two
\* years, ends the fetch
CheckPage ==
  /\ pc = "check"
  /\ UNCHANGED perFetch
  /\ UNCHANGED printed
  /\ UNCHANGED faults
  /\ df' = FilterBars(bars, start_date)
  /\ IF bars = {} \/ df' = {}
     THEN Leave("DONE", NextContract(idx))
     ELSE /\ pc' = "append"
          /\ UNCHANGED <<idx, status>>
  /\ UNCHANGED <<runs, clock, apiData, valid_contracts, log, diskLog, files, end_dt,
                 start_date, retry, bars, result>>
  /\ UNCHANGED history

\* lines 131-132: the page is appended to the contract's file
AppendPage ==
  /\ pc = "append"
  /\ appended' = appended \o SortedSeq(df)
  /\ UNCHANGED <<responses, reqs, ckpts, printed>>
  /\ UNCHANGED faults
  /\ files' = [files EXCEPT ![Sym] = @ \o SortedSeq(df)]
  /\ unsaved' = [unsaved EXCEPT ![Sym] = @ + 1]
  /\ pc' = "sleep"
  /\ UNCHANGED <<runs, clock, apiData, status, result, slept, lastGap, lastReq, backoffs,
                 startCursor, interrupts, diskLog>>
  /\ UNCHANGED volatile

\* line 132 raises (disk full, no permission): lines 164-166 skip the contract
AppendError ==
  /\ pc = "append"
  /\ UNCHANGED perFetch
  /\ UNCHANGED printed
  /\ faults < MaxFaults
  /\ faults' = faults + 1
  /\ Leave("ERROR", AfterGiveUp(idx))
  /\ UNCHANGED <<runs, clock, apiData, valid_contracts, log, diskLog, files, end_dt,
                 start_date, retry, bars, df, result>>
  /\ UNCHANGED history

\* line 135: time.sleep(1.1)
RateSleep ==
  /\ pc = "sleep"
  /\ UNCHANGED perFetch
  /\ UNCHANGED printed
  /\ UNCHANGED faults
  /\ slept' = slept + RateLimitDelay
  /\ pc' = "persist"
  /\ UNCHANGED <<runs, clock, apiData, diskLog, files, status, result, lastGap, lastReq,
                 backoffs, startCursor, unsaved, interrupts>>
  /\ UNCHANGED volatile

\* lines 138-150: move the cursor, write the log, stop at the boundary
Persist ==
  /\ pc = "persist"
  /\ UNCHANGED faults
  /\ end_dt' = StrFTime(NextCursor(df))
  /\ log' = [log EXCEPT ![Sym] = end_dt']
  /\ diskLog' = WriteLog(diskLog, log')
  /\ unsaved' = [s \in Symbols |-> IF diskLog'[s] = log'[s] THEN 0 ELSE unsaved[s]]
  /\ ckpts' = IF diskLog'[Sym] = end_dt' THEN ckpts + 1 ELSE ckpts
  /\ UNCHANGED <<responses, reqs, appended, printed>>
  /\ IF ReachedBoundary(df, start_date)
     THEN Leave("DONE", NextContract(idx))
     ELSE /\ pc' = "request"
          /\ UNCHANGED <<idx, status>>
  /\ retry' = 0
  /\ backoffs' = <<>>
  /\ UNCHANGED <<runs, clock, apiData, valid_contracts, files, start_date, bars, df,
                 result, slept, lastGap, lastReq, startCursor, interrupts>>

\* lines 138-144 raise while writing the log: lines 164-166 skip the contract
PersistError ==
  /\ pc = "persist"
  /\ UNCHANGED perFetch
  /\ UNCHANGED printed
  /\ faults < MaxFaults
  /\ faults' = faults + 1
  /\ end_dt' = StrFTime(NextCursor(df))
  /\ log' = [log EXCEPT ![Sym] = end_dt']
  /\ interrupts' = [interrupts EXCEPT ![Sym] = @ + 1]
  /\ Leave("ERROR", AfterGiveUp(idx))
  /\ UNCHANGED <<runs, clock, apiData, valid_contracts, diskLog, files, start_date,
                 retry, bars, df, result, slept, lastGap, lastReq, backoffs,
                 startCursor, unsaved>>

\* lines 168-211: after the last contract, the per-contract files are merged
Merge ==
  /\ pc = "loop"
  /\ printed' = MergeLines(valid_contracts, files)
  /\ UNCHANGED perFetch
  /\ UNCHANGED faults
  /\ idx > Len(valid_contracts)
  /\ result' = Merged(valid_contracts, files)
  /\ pc' = "finished"
  /\ UNCHANGED <<runs, clock, apiData, diskLog, files, status>>
  /\ UNCHANGED volatile
  /\ UNCHANGED history

\* the process is killed; only the files survive
Crash ==
  /\ Running
  /\ responses' = <<>>
  /\ reqs' = 0
  /\ ckpts' = 0
  /\ appended' = <<>>
  /\ printed' = {}
  /\ faults < MaxFaults
  /\ faults' = faults + 1
  /\ pc' = "off"
  /\ interrupts' = IF pc \in {"sleep", "persist"}
                   THEN [interrupts EXCEPT ![Sym] = @ + 1] ELSE interrupts
  /\ valid_contracts' = <<>>
  /\ log' = NoLog
  /\ idx' = 1
  /\ end_dt' = <<>>
  /\ start_date' = 0
  /\ retry' = 0
  /\ bars' = {}
  /\ df' = {}
  /\ status' = [s \in Symbols |-> "INIT"]
  /\ result' = <<>>
  /\ slept' = -1
  /\ lastGap' = -1
  /\ lastReq' = <<>>
  /\ backoffs' = <<>>
  /\ startCursor' = NoLog
  /\ unsaved' = Zero
  /\ UNCHANGED <<runs, clock, apiData, diskLog, files>>

Next ==
  \/ ConnectFail
  \/ Start
  \/ Tick
  \/ FetchInit
  \/ RequestOk
  \/ RequestFail
  \/ CheckPage
  \/ AppendPage
  \/ AppendError
  \/ RateSleep
  \/ Persist
  \/ PersistError
  \/ Merge
  \/ Crash

Spec == Init /\ [][Next]_vars

\* ----------------------------------------- the merge of two given files
MaxMergeTime == 6
Perms(n) == {f \in [1..n -> 1..MaxMergeTime] : \A i, j \in 1..n : f[i] = f[j] => i = j}
AsRows(f) == [i \in DOMAIN f |-> <<f[i], 1>>]

\* every contract has been fetched; the two valid contracts left files of
\* three and four rows, in the order their pages were appended
InitMerge ==
  /\ pc = "loop"
  /\ runs = 1
  /\ faults = 0
  /\ clock = ClockStart
  /\ apiData = [s \in Symbols |-> {}]
  /\ valid_contracts = FilterContracts(ContractDetails, ClockStart - Lookback)
  /\ log = NoLog
  /\ diskLog = NoLog
  /\ \E a \in Perms(3), b \in Perms(4) :
       files = [s \in Symbols |->
                  IF s = valid_contracts[1].localSymbol THEN AsRows(a)
                  ELSE IF s = valid_contracts[2].localSymbol THEN AsRows(b)
                  ELSE <<>>]
  /\ idx = Len(valid_contracts) + 1
  /\ end_dt = <<>>
  /\ start_date = ClockStart - Lookback
  /\ retry = 0
  /\ bars = {}
  /\ df = {}
  /\ status = [s \in Symbols |->
                 IF \E i \in 1..Len(valid_contracts) : valid_contracts[i].localSymbol = s
                 THEN "DONE" ELSE "INIT"]
  /\ result = <<>>
  /\ slept = -1
  /\ lastGap = -1
  /\ lastReq = <<>>
  /\ backoffs = <<>>
  /\ startCursor = NoLog
  /\ unsaved = [s \in Symbols |-> 0]
  /\ interrupts = [s \in Symbols |-> 0]
  /\ responses = <<>>
  /\ reqs = 0
  /\ ckpts = 0
  /\ appended = <<>>
  /\ printed = {}

NextMerge == Merge

SpecMerge == InitMerge /\ [][NextMerge]_vars

\* ------------------------------------- one run that is never interrupted
NextLive ==
  \/ Start
  \/ Tick
  \/ FetchInit
  \/ RequestOk
  \/ RequestFail
  \/ CheckPage
  \/ AppendPage
  \/ RateSleep
  \/ Persist
  \/ Merge

\* the script runs the statements of the contract loop one after another
\* and every call returns
Step ==
  \/ FetchInit
  \/ RequestOk
  \/ RequestFail
  \/ CheckPage
  \/ AppendPage
  \/ RateSleep
  \/ Persist

SpecLive == Init /\ [][NextLive]_vars /\ WF_vars(Step)

\* ------------------------------------------------------------- claims
Dups(rows) == Len(rows) - Cardinality(Range(rows))
IsPrefix(a, b) == Len(a) <= Len(b) /\ SubSeq(b, 1, Len(a)) = a
CursorTime(s) == ParseEnd(s, 0)

\* C1: for every contract with a persisted checkpoint entry, the persisted
\* cursor is at or before the earliest bar already in the contract's file,
\* in every state the process can be killed in.
C1_CursorBelowWrittenBars ==
  \A s \in Symbols :
    (diskLog[s] # <<>> /\ files[s] # <<>>)
      => CursorTime(diskLog[s]) <= Min(Dates(Range(files[s])))

\* C2: when the contract had a stored cursor at the start of the run, every
\* request sent for it in the run ends at or before that stored cursor.
C2_RequestsNotAfterStoredCursor ==
  (lastReq # <<>> /\ startCursor[lastReq[1]] # <<>>)
    => lastReq[2] <= CursorTime(startCursor[lastReq[1]])

\* C2 witness: a later page of a resumed contract was requested
C2_Witness ==
  /\ lastReq # <<>>
  /\ startCursor[lastReq[1]] # <<>>
  /\ lastReq[2] < CursorTime(startCursor[lastReq[1]])

ResumesFromStoredCursor ==
  (pc = "loop" /\ pc' = "request" /\ startCursor[Sym] # <<>>) =>
     end_dt' = startCursor[Sym]

\* C4 as stated: over any crashes and restarts no row of a file is removed
\* or overwritten and the duplicate rows of a file are at most one page.
C4_DuplicatesAtMostOnePage ==
  [][/\ ResumesFromStoredCursor
     /\ \A s \in Symbols :
          IsPrefix(files[s], files'[s]) /\ Dups(files'[s]) <= Window]_vars

\* C4 amended: over any crashes and restarts no row of a file is removed or
\* overwritten, and the duplicate rows of a file are at most one page for
\* each time a page was appended and its checkpoint was not persisted.
C4_DuplicatesOnePagePerInterrupt ==
  [][/\ ResumesFromStoredCursor
     /\ \A s \in Symbols :
          IsPrefix(files[s], files'[s]) /\ Dups(files'[s]) <= Window * interrupts'[s]]_vars

\* C4 witness: a resumed run has appended a page a second time
C4_Witness ==
  \E s \in Symbols : Dups(files[s]) > 0 /\ runs > 1 /\ pc = "persist" /\ Sym = s

\* C5: between two consecutive requests of a run the process sleeps at least
\* the rate-limit delay.
C5_RateLimitBetweenRequests == lastGap = -1 \/ lastGap >= RateLimitDelay

\* C6: a page is attempted at most MaxRetries times, the sleeps between its
\* attempts are 1 s, 2 s (2^attempt), the counter restarts with every page,
\* and the page returned by a late attempt is filtered and appended as usual.
C6_BoundedRetriesWithBackoff ==
  /\ retry \in 0..(MaxRetries - 1)
  /\ Running => Len(backoffs) = retry
  /\ \A i \in 1..Len(backoffs) : backoffs[i] = 10 * Pow2(i - 1)
  /\ pc \in {"append", "sleep", "persist"} =>
       df # {} /\ df = {r \in bars : r[1] >= start_date}

\* C6 witness: two failures, then the page was appended
C6_Witness ==
  /\ pc = "persist"
  /\ retry = 2
  /\ backoffs = <<10, 20>>
  /\ unsaved[Sym] = 1

\* C7: when the last attempt fails the contract is given up with its file
\* and checkpoint as the last successful page left them, the loop goes on
\* with the next contract, and the merge is reached only after every
\* contract was tried.
C7_AbandonKeepsFileAndCheckpoint ==
  [][/\ (pc = "request" /\ retry = MaxRetries - 1 /\ pc' = "loop") =>
          /\ files' = files
          /\ diskLog' = diskLog
          /\ log' = log
          /\ unsaved[Sym] = 0
          /\ status'[Sym] = "FAILED"
          /\ idx' = idx + 1
          /\ valid_contracts' = valid_contracts
     /\ pc' = "finished" =>
          \A i \in 1..Len(valid_contracts') :
            status'[valid_contracts'[i].localSymbol] \notin {"INIT", "FETCHING"}]_vars

\* C7 witness: a contract failed after a page, a later one was fetched, merged
C7_Witness ==
  /\ pc = "finished"
  /\ \E i, j \in 1..Len(valid_contracts) :
       /\ i < j
       /\ status[valid_contracts[i].localSymbol] = "FAILED"
       /\ files[valid_contracts[i].localSymbol] # <<>>
       /\ status[valid_contracts[j].localSymbol] = "DONE"
       /\ files[valid_contracts[j].localSymbol] # <<>>

\* C8: the fetch of a contract ends in failure only by exhausting the
\* attempts of a request; no other error ends it.
C8_OnlyRetryExhaustionFails ==
  \A s \in Symbols : status[s] \in {"INIT", "FETCHING", "DONE", "FAILED"}

\* C9: the boundary is the start of the fetch minus the lookback, no bar
\* older than the boundary is appended, and a page with
\* no bar at or after the boundary ends the fetch DONE with no write and no
\* checkpoint update.
C9_NoBarOlderThanBoundary ==
  [][/\ (pc = "loop" /\ pc' = "request") => start_date' = clock - Lookback
     /\ \A s \in Symbols :
          \A i \in (Len(files[s]) + 1)..Len(files'[s]) : files'[s][i][1] >= start_date
     /\ (pc = "check" /\ pc' \notin {"check", "off"} /\ ~ \E r \in bars : r[1] >= start_date) =>
          /\ status'[Sym] = "DONE"
          /\ pc' = "loop"
          /\ files' = files
          /\ diskLog' = diskLog
          /\ log' = log]_vars

\* C9 witness: a page straddling the boundary was appended without its old bars
C9_Witness ==
  /\ pc = "sleep"
  /\ \E r \in bars : r[1] < start_date
  /\ \A r \in Range(files[Sym]) : r[1] >= start_date
  /\ files[Sym] # <<>>

\* C10: a fetch ends DONE only when the cursor has reached the boundary or
\* the API holds no bar at or before the cursor and at or after the boundary.
C10_DoneOnlyAtBoundaryOrExhausted ==
  (pc = "loop" /\ idx > 1 /\ status[valid_contracts[idx - 1].localSymbol] = "DONE") =>
     LET cursor == ParseEnd(end_dt, clock)
     IN \/ cursor <= start_date
        \/ ~ \E t \in apiData[valid_contracts[idx - 1].localSymbol] :
               t <= cursor /\ t >= start_date

\* ---------------------------------------------------------------- C11..C20
Last == valid_contracts[idx - 1].localSymbol
RECURSIVE Rows(_)
Rows(pages) == IF pages = <<>> THEN {} ELSE Head(pages) \cup Rows(Tail(pages))
RECURSIVE Count(_)
Count(pages) == IF pages = <<>> THEN 0 ELSE Cardinality(Head(pages)) + Count(Tail(pages))
EndOfDay(t) == (t \div DayMinutes) * DayMinutes + DayMinutes - 1

\* C11: once a page returned by the API whose minimum timestamp is at or
\* before the two-year boundary has been processed, no further request is
\* issued for the contract: whenever a request is about to be sent, every
\* page already returned to this fetch lies wholly after the boundary.
C11_NoRequestAfterBoundaryPage ==
  pc = "request" =>
    \A i \in 1..Len(responses) :
      responses[i] # {} => Min(Dates(responses[i])) > start_date

\* the first run, never interrupted, has just finished a contract whose
\* pages were all non-empty and in range, but for the last, which was empty
CleanFetch ==
  /\ pc = "loop" /\ idx > 1 /\ runs = 1 /\ faults = 0
  /\ responses # <<>>
  /\ responses[Len(responses)] = {}
  /\ \A i \in 1..(Len(responses) - 1) :
       responses[i] # {} /\ \A r \in responses[i] : r[1] >= start_date

\* C12: with no checkpoint file, when the API returns N non-empty pages of
\* in-range bars and then an empty page, the contract's file holds exactly
\* the rows of the N pages, the checkpoint was written N times, N + 1
\* requests were sent and the contract is DONE.
C12_PagesThenEmpty ==
  CleanFetch =>
    LET N == Len(responses) - 1
    IN /\ Range(files[Last]) = Rows(responses)
       /\ Len(files[Last]) = Count(responses)
       /\ ckpts = N
       /\ reqs = N + 1
       /\ status[Last] = "DONE"

\* C12 witness: one page of three bars, then an empty page
C12_Witness ==
  /\ CleanFetch
  /\ Len(responses) = 2
  /\ Len(files[Last]) = Window
  /\ ckpts = 1 /\ reqs = 2 /\ status[Last] = "DONE"

\* C14: every bar written to a contract's file, identified by (timestamp,
\* contract), appears exactly once in the combined output.
C14_EachBarOnceInCombined ==
  pc = "finished" =>
    \A s \in Symbols : \A r \in Range(files[s]) :
      Cardinality({i \in 1..Len(result) : result[i][1] = r[1] /\ result[i][3] = s}) = 1

\* C15: at merge time every enumerated contract whose file is missing or
\* empty produces a log line and is left out of the combined output.
C15_MissingFileIsLogged ==
  pc = "finished" =>
    \A i \in 1..Len(valid_contracts) :
      LET s == valid_contracts[i].localSymbol
      IN files[s] = <<>> =>
           /\ s \in printed
           /\ \A j \in 1..Len(result) : result[j][3] # s

\* the expiry of the contract being fetched, in minutes
Expiry == ParseExpiry(Cur)

Denoted(c) ==
  LET e == c.expiry
      n(i, j) == IF j = i THEN e[i] ELSE e[i] * 10 + e[j]
      y == ((e[1] * 10 + e[2]) * 10 + e[3]) * 10 + e[4]
  IN IF Len(e) = 8 /\ n(5, 6) \in 1..12 /\ n(7, 8) \in 1..MonthDays
     THEN DayNumber(y, n(5, 6), n(7, 8)) * DayMinutes
     ELSE IF Len(e) = 6 /\ n(5, 6) \in 1..12
     THEN DayNumber(y, n(5, 6), 1) * DayMinutes
     ELSE -1

\* C17: the enumerator's output is exactly the returned contracts whose
\* expiry parses and is at or after now minus the lookback.
C17_ExactlyTheRecentContracts ==
  [][(pc \in {"off", "finished"} /\ pc' = "loop") =>
       {valid_contracts'[i] : i \in 1..Len(valid_contracts')}
         = {c \in Range(ContractDetails) :
              Denoted(c) >= 0 /\ Denoted(c) >= clock - Lookback}]_vars

\* C18: the process never sleeps for the rate limit while an appended page
\* has not been checkpointed.
C18_NoSleepBeforeCheckpoint ==
  pc = "sleep" => unsaved[Sym] = 0

\* C19: in an uninterrupted fetch no timestamp is appended to the file
\* twice, and each new cursor is strictly before the end time of the request
\* whose page produced it.
C19_PagesNeverOverlap ==
  /\ [](\A i, j \in 1..Len(appended) : appended[i][1] = appended[j][1] => i = j)
  /\ [][(pc = "persist" /\ end_dt' # end_dt) => CursorTime(end_dt') < lastReq[2]]_vars

\* C19 witness: two pages were appended and the second request ended before
\* every bar of the first page
C19_Witness ==
  /\ pc = "sleep" /\ reqs = 2
  /\ Len(appended) > Cardinality(df)
  /\ lastReq[2] < appended[1][1]

\* the two files hold three and four rows and share exactly one timestamp
OneOverlap ==
  LET a == files[valid_contracts[1].localSymbol]
      b == files[valid_contracts[2].localSymbol]
  IN /\ Len(valid_contracts) = 2
     /\ Len(a) = 3 /\ Len(b) = 4
     /\ Cardinality(Dates(Range(a)) \cap Dates(Range(b))) = 1
Ascending(rows) == \A i, j \in 1..Len(rows) : i < j => rows[i][1] <= rows[j][1]

\* C13: merging two files of 3 and 4 rows that share one timestamp gives 6
\* rows, sorted ascending by timestamp.
C13_SixRowsSorted ==
  (pc = "finished" /\ OneOverlap) => (Len(result) = 6 /\ Ascending(result))

\* C13 as the code has it: the rows of the shared timestamp differ in their
\* contract, both are kept, and the 7 rows are sorted ascending by timestamp.
C13_SevenRowsSorted ==
  (pc = "finished" /\ OneOverlap) =>
     /\ Len(result) = 7
     /\ Ascending(result)
     /\ \E i \in 1..6 : result[i][1] = result[i + 1][1] /\ result[i][3] # result[i + 1][3]

\* C13 witness: two files that share one timestamp, neither of them in
\* ascending order, were merged
C13_Witness ==
  /\ pc = "finished" /\ OneOverlap
  /\ ~ Ascending(files[valid_contracts[1].localSymbol])
  /\ ~ Ascending(files[valid_contracts[2].localSymbol])
  /\ Len(result) = 7

\* the contract loop is over and the merge is the next statement
AtMerge == pc = "loop" /\ idx > Len(valid_contracts)

\* C20: every fetch that has started ends DONE or FAILED, and a run that
\* has started reaches the merge step with every enumerated contract DONE or
\* FAILED.
C20_RunReachesMerge ==
  /\ \A s \in Symbols : (status[s] = "FETCHING") ~> (status[s] \in {"DONE", "FAILED"})
  /\ (pc = "loop") ~>
       (AtMerge /\ \A i \in 1..Len(valid_contracts) :
                     status[valid_contracts[i].localSymbol] \in {"DONE", "FAILED"})

\* C20 witness: the run reached the merge step after one contract failed
\* and the other was fetched to the end
C20_Witness ==
  /\ AtMerge
  /\ \E i, j \in 1..Len(valid_contracts) :
       /\ status[valid_contracts[i].localSymbol] = "FAILED"
       /\ status[valid_contracts[j].localSymbol] = "DONE"
       /\ files[valid_contracts[j].localSymbol] # <<>>

====
